---- MODULE Spec2Model ----
(***************************************************************************)
(* A model of betalo-sweden/moq: the mock generator of pkg/moq/moq.go and  *)
(* its command line front end.  Go strings are modelled as TLA+ strings    *)
(* (Len, SubSeq and \o act on them character by character), so the path   *)
(* and type-string manipulations are computed as the code computes them.   *)
(***************************************************************************)
EXTENDS Integers, Sequences, FiniteSets, TLC

VARIABLES
    pc,         \* position of the running invocation ("idle" between invocations)
    mode,       \* "cli": main() drives Mock; "api": a library caller drives Mock
    m,          \* the Mocker (src, pkgName, pkgPath, imports), or NoMocker
    names,      \* the names handed to Mock (name ...string)
    outFile,    \* main's -out flag ("" is stdout)
    idx,        \* the index of Mock's loop over the names (1-based)
    doc,        \* Mock's local doc{PackageName, Objects, Imports}
    mocksMethods, \* Mock's local flag: some requested interface has a method
    buf,        \* Mock's local bytes.Buffer the template is executed into
    formatted,  \* Mock's local result of imports.Process
    w,          \* what has been written to the io.Writer handed to Mock
    err,        \* the error the invocation reported ([kind, name])
    files,      \* the source directory: file name -> contracts mocked in it
    locked,     \* files of the directory os.Remove cannot remove
    persisted,  \* whether main's ioutil.WriteFile ran in this invocation
    fin,        \* input of the function under test (function specifications)
    fout        \* its result

vars == <<pc, mode, m, names, outFile, idx, doc, mocksMethods, buf, formatted, w,
          err, files, locked, persisted, fin, fout>>

pipeVars == <<pc, mode, m, names, outFile, idx, doc, mocksMethods, buf, formatted, w,
              err, files, locked, persisted>>

-----------------------------------------------------------------------------
(* Bounds of the model.                                                    *)

MaxNames == 2      \* names handed to one Mock call
MaxSegs == 4       \* segments of an import path handed to stripVendorPath
MaxParams == 2     \* parameters (and results) of a method signature
MaxRefs == 2       \* type references qualified by one Mocker

-----------------------------------------------------------------------------
(* Go's strings, path and path/filepath functions used by moq.go.          *)

HasPrefix(s, p) == Len(s) >= Len(p) /\ SubSeq(s, 1, Len(p)) = p

HasSuffix(s, p) == Len(s) >= Len(p) /\ SubSeq(s, Len(s) - Len(p) + 1, Len(s)) = p

TrimPrefix(s, p) == IF HasPrefix(s, p) THEN SubSeq(s, Len(p) + 1, Len(s)) ELSE s

\* the 1-based positions at which sep occurs in s
Occurrences(s, sep) ==
    {i \in 1..(Len(s) - Len(sep) + 1) : SubSeq(s, i, i + Len(sep) - 1) = sep}

FirstOr0(hits) == IF hits = {} THEN 0 ELSE CHOOSE i \in hits : \A j \in hits : i <= j

LastOr0(hits) == IF hits = {} THEN 0 ELSE CHOOSE i \in hits : \A j \in hits : i >= j

\* strings.Index: the 1-based position of the first sep in s, 0 when absent
Index(s, sep) == FirstOr0(Occurrences(s, sep))

\* strings.LastIndex: the 1-based position of the last sep in s, 0 when absent
LastIndex(s, sep) == LastOr0(Occurrences(s, sep))

Contains(s, sep) == Index(s, sep) # 0

\* strings.Split: the pieces of s between the non-overlapping occurrences of
\* sep, found left to right
RECURSIVE Split(_, _)
SplitAt(s, sep, i) ==
    IF i = 0 THEN <<s>>
    ELSE <<SubSeq(s, 1, i - 1)>> \o Split(SubSeq(s, i + Len(sep), Len(s)), sep)

Split(s, sep) == SplitAt(s, sep, Index(s, sep))

\* strings.TrimLeft(s, "/")
RECURSIVE TrimLeft(_, _)
TrimLeft(s, c) == IF HasPrefix(s, c) /\ Len(c) > 0 THEN TrimLeft(SubSeq(s, Len(c) + 1, Len(s)), c) ELSE s

\* strings.Join
RECURSIVE JoinStrings(_, _)
JoinStrings(parts, sep) ==
    IF Len(parts) = 0 THEN ""
    ELSE IF Len(parts) = 1 THEN parts[1]
    ELSE parts[1] \o sep \o JoinStrings(Tail(parts), sep)

\* the elements of path.Clean's output: "" and "." elements are dropped, ".."
\* removes the element before it (and is kept at the start of a relative path)
CleanElem(e, acc, rooted) ==
    IF e = "" \/ e = "." THEN acc
    ELSE IF e = ".."
         THEN IF Len(acc) > 0 /\ acc[Len(acc)] # ".."
              THEN SubSeq(acc, 1, Len(acc) - 1)
              ELSE IF rooted THEN acc ELSE Append(acc, e)
    ELSE Append(acc, e)

RECURSIVE CleanElems(_, _, _)
CleanElems(elems, acc, rooted) ==
    IF Len(elems) = 0 THEN acc
    ELSE CleanElems(Tail(elems), CleanElem(Head(elems), acc, rooted), rooted)

\* the cleaned path from its cleaned elements: "/" in front of a rooted path,
\* "." for the empty relative path
CleanedPath(rooted, body) ==
    IF rooted THEN "/" \o body
    ELSE IF body = "" THEN "." ELSE body

\* path.Clean / filepath.Clean
Clean(p) ==
    CleanedPath(HasPrefix(p, "/"),
                JoinStrings(CleanElems(Split(p, "/"), <<>>, HasPrefix(p, "/")), "/"))

\* path.Join / filepath.Join: the non-empty elements joined by "/" and cleaned
JoinNonEmpty(nonEmpty) ==
    IF Len(nonEmpty) = 0 THEN "" ELSE Clean(JoinStrings(nonEmpty, "/"))

Join(elems) == JoinNonEmpty(SelectSeq(elems, LAMBDA e : e # ""))

\* filepath.Dir: all but the last element of the path, cleaned
Dir(p) == Clean(SubSeq(p, 1, LastIndex(p, "/")))

-----------------------------------------------------------------------------
(* The environment of the tool.                                            *)

\* the working directory filepath.Abs resolves relative paths against
Cwd == "/go/src/m/a"

\* filepath.Abs
Abs(p) == IF HasPrefix(p, "/") THEN Clean(p) ELSE Join(<<Cwd, p>>)

\* gopaths returns a list of GOPATH paths.
gopaths == <<"/go">>

RECURSIVE stripGopathFrom(_, _)
stripGopathFrom(p, gps) ==
    IF Len(gps) = 0 THEN p
    ELSE stripGopathFrom(TrimPrefix(p, Join(<<Head(gps), "src">>) \o "/"), Tail(gps))

\* stripGopath takes the directory to a package and removes the gopath
stripGopath(p) == stripGopathFrom(p, gopaths)

\* pkgPath resolves the full package path from a source directory
pkgPath(src) == stripGopath(Abs(src))

-----------------------------------------------------------------------------
(* stripVendorPath.                                                        *)

\* the result of stripVendorPath from the parts around "/vendor/"
vendorStripped(p, parts) ==
    IF Len(parts) = 1 THEN p ELSE TrimLeft(Join(Tail(parts)), "/")

stripVendorPath(p) == vendorStripped(p, Split(p, "/vendor/"))

-----------------------------------------------------------------------------
(* go/types values: packages, types, variables, signatures.                *)

\* a *types.Package: its import path and its name (the package clause)
Pkg(path, name) == [path |-> path, name |-> name]

\* the nil package of a universe type (int, string, error)
NoPkg == Pkg("", "")

\* a type: an optional "[]" or "*" in front of a (possibly named) type
Type(prefix, pkg, name) == [prefix |-> prefix, pkg |-> pkg, name |-> name]

\* a *types.Var of a parameter or result tuple; name "" when the source names none
Var(name, type) == [name |-> name, type |-> type]

\* a *types.Signature
Signature(variadic, params, results) ==
    [variadic |-> variadic, params |-> params, results |-> results]

-----------------------------------------------------------------------------
(* Mocker, New and packageQualifier.                                       *)

NoMocker == [src |-> "", pkgName |-> "", pkgPath |-> "", imports |-> {}, ok |-> FALSE]

\* the names of the packages parser.ParseDir finds in the non-test files of a
\* directory (the keys of New's pkgs map)
ParseDir(src) ==
    LET abs == Abs(src)
    IN  IF abs = "/go/src/m/a" THEN {"a"}
        ELSE IF abs = "/go/src/m/d" THEN {"p"}
        ELSE IF abs = "/go/src/m/t" THEN {"t_test"}
        ELSE {}

\* New's choice of the package name: the override, else a parsed package whose
\* name does not contain "_test" (Go's map iteration order picks which)
PackageNames(src, packageName) ==
    IF Len(packageName) # 0 THEN {packageName}
    ELSE {n \in ParseDir(src) : ~Contains(n, "_test")}

\* the Mocker New returns once the package name is determined
New_pathAsIs(src, packageName) ==
    [src |-> src, pkgName |-> packageName, pkgPath |-> pkgPath(src),
     imports |-> {}, ok |-> TRUE]

New(src, packageName) ==
    [src |-> src, pkgName |-> packageName,
     pkgPath |-> Join(<<Dir(pkgPath(src)), packageName>>),
     imports |-> {}, ok |-> TRUE]

\* packageQualifier: the qualifier of pkg's types, and the Mocker with the
\* import recorded
\* (the loader is handed pkgPath(src), an absolute path with the GOPATH
\* stripped, so no package it loads has the path ".")
packageQualifier(mk, pkg) ==
    IF Join(<<Dir(pkg.path), pkg.name>>) = mk.pkgPath
    THEN [q |-> "", m |-> mk]
    ELSE [q |-> pkg.name,
          m |-> [mk EXCEPT !.imports =
                    @ \cup {IF pkg.path = "." THEN mk.pkgPath ELSE pkg.path}]]

\* types.TypeString(t, m.packageQualifier): the qualifier is asked for once for
\* a type that has a package
Qualified(t, r) ==
    [str |-> t.prefix \o (IF r.q = "" THEN "" ELSE r.q \o ".") \o t.name, m |-> r.m]

TypeString(mk, t) ==
    IF t.pkg = NoPkg
    THEN [str |-> t.prefix \o t.name, m |-> mk]
    ELSE Qualified(t, packageQualifier(mk, t.pkg))

-----------------------------------------------------------------------------
(* extractArgs.                                                            *)

\* fmt.Sprintf(nameFormat, k) for a format holding one %d
SprintfAt(nameFormat, k, i) ==
    SubSeq(nameFormat, 1, i - 1) \o ToString(k) \o SubSeq(nameFormat, i + 2, Len(nameFormat))

Sprintf(nameFormat, k) == SprintfAt(nameFormat, k, Index(nameFormat, "%d"))

param(name, type, variadic) == [Name |-> name, Type |-> type, Variadic |-> variadic]

\* the variadic flag of the ii-th (0-based) of listLen parameters; typename[0:2]
\* is a slice expression that panics on a string shorter than two bytes
isVariadic(sig, ii, listLen, typename) ==
    IF ~(sig.variadic /\ ii = listLen - 1)
    THEN [panic |-> FALSE, v |-> FALSE]
    ELSE IF Len(typename) < 2
         THEN [panic |-> TRUE, v |-> FALSE]
         ELSE [panic |-> FALSE, v |-> SubSeq(typename, 1, 2) = "[]"]

\* the name of the ii-th (0-based) parameter
paramName_zeroBased(p, nameFormat, ii) ==
    IF p.name = "" THEN Sprintf(nameFormat, ii) ELSE p.name

paramName(p, nameFormat, ii) ==
    IF p.name = "" THEN Sprintf(nameFormat, ii + 1) ELSE p.name

\* the loop of extractArgs from index ii (0-based) on; ts is the rendered type
\* of the ii-th parameter and va its variadic flag
RECURSIVE extractArgsFrom(_, _, _, _, _, _)
extractArgsFlagged(sig, list, nameFormat, ii, params, ts, va) ==
    IF va.panic
    THEN [params |-> params, m |-> ts.m, panic |-> TRUE]
    ELSE extractArgsFrom(ts.m, sig, list, nameFormat, ii + 1,
             Append(params, param(paramName(list[ii + 1], nameFormat, ii), ts.str, va.v)))

extractArgsTyped(sig, list, nameFormat, ii, params, ts) ==
    extractArgsFlagged(sig, list, nameFormat, ii, params, ts,
                       isVariadic(sig, ii, Len(list), ts.str))

extractArgsFrom(mk, sig, list, nameFormat, ii, params) ==
    IF ii >= Len(list)
    THEN [params |-> params, m |-> mk, panic |-> FALSE]
    ELSE extractArgsTyped(sig, list, nameFormat, ii, params,
                          TypeString(mk, list[ii + 1].type))

extractArgs(mk, sig, list, nameFormat) ==
    extractArgsFrom(mk, sig, list, nameFormat, 0, <<>>)

\* the method descriptor of meth from its extracted inputs and outputs
methodOf(meth, ins, outs) ==
    [done |-> FALSE,
     method |-> [Name |-> meth.name, Params |-> ins.params, Returns |-> outs.params],
     m |-> outs.m,
     panic |-> outs.panic]

extractReturns(meth, ins) ==
    IF ins.panic
    THEN [done |-> FALSE,
          method |-> [Name |-> meth.name, Params |-> ins.params, Returns |-> <<>>],
          m |-> ins.m, panic |-> TRUE]
    ELSE methodOf(meth, ins, extractArgs(ins.m, meth.sig, meth.sig.results, "out%d"))

\* the body of Mock's loop over the methods: the method descriptor of meth
extractMethod(mk, meth) ==
    extractReturns(meth, extractArgs(mk, meth.sig, meth.sig.params, "in%d"))

-----------------------------------------------------------------------------
(* Values shared by the specifications.                                    *)

NoError == [kind |-> "none", name |-> ""]

Error(kind, name) == [kind |-> kind, name |-> name]

EmptyDoc == [PackageName |-> "", Objects |-> <<>>, Imports |-> <<>>]

Range(seq) == {seq[i] : i \in 1..Len(seq)}

\* the orders in which a range over a Go map can visit the keys S
Orders(S) ==
    {o \in [1..Cardinality(S) -> S] : \A i, j \in 1..Cardinality(S) : o[i] = o[j] => i = j}

\* the sequences over S of length 0..n
RECURSIVE SeqsUpTo(_, _)
SeqsUpTo(S, n) ==
    IF n = 0 THEN {<<>>}
    ELSE LET shorter == SeqsUpTo(S, n - 1)
         IN  shorter \cup {Append(q, x) : q \in shorter, x \in S}

\* the pipeline variables while a function specification runs
PipelineOff ==
    /\ pc = "off" /\ mode = "" /\ m = NoMocker /\ names = <<>> /\ outFile = ""
    /\ idx = 0 /\ doc = EmptyDoc /\ mocksMethods = FALSE /\ buf = <<>>
    /\ formatted = <<>> /\ w = <<>> /\ err = NoError
    /\ files = {} /\ locked = {} /\ persisted = FALSE

\* var moqImports: the imports every generated file starts with
moqImports == <<>>

\* Mock's loop over m.imports, appending each stripped path to doc.Imports in
\* the order the map range visits them
flushImports(imports, order) ==
    imports \o [i \in 1..Len(order) |-> stripVendorPath(order[i])]

-----------------------------------------------------------------------------
(* SpecVendor: stripVendorPath applied to the recorded import paths.       *)

PathSegs == {"a", "b", "vendor"}

\* import paths of 1..MaxSegs segments whose last segment names a package
ImportPaths ==
    {JoinStrings(q, "/") : q \in {q \in SeqsUpTo(PathSegs, MaxSegs) :
                                    Len(q) > 0 /\ q[Len(q)] # "vendor"}}

InitVendor ==
    /\ PipelineOff
    /\ fin \in {{p} : p \in ImportPaths}
    /\ fout = [done |-> FALSE, Imports |-> <<>>]

FlushImports ==
    /\ pc = "off" /\ ~fout.done
    /\ \E order \in Orders(fin) :
          fout' = [done |-> TRUE, Imports |-> flushImports(moqImports, order)]
    /\ UNCHANGED <<pipeVars, fin>>

NextVendor == FlushImports

SpecVendor == InitVendor /\ [][NextVendor]_vars

\* whether a "/"-separated path has a segment named vendor
HasVendorSegment(p) == "vendor" \in Range(Split(p, "/"))

\* the portion of p after its last vendor segment
AfterVendor(p) ==
    LET segs == Split(p, "/")
        last == CHOOSE i \in 1..Len(segs) :
                    segs[i] = "vendor" /\ \A j \in (i + 1)..Len(segs) : segs[j] # "vendor"
    IN  JoinStrings(SubSeq(segs, last + 1, Len(segs)), "/")

\* C8: every recorded import path that contains a vendor segment is emitted in
\* doc.Imports as the portion after the marker, and no emitted import path
\* contains a vendor segment.
C8_NoVendorSegmentEmitted ==
    fout.done =>
        /\ \A i \in 1..Len(fout.Imports) : ~HasVendorSegment(fout.Imports[i])
        /\ \A p \in fin : HasVendorSegment(p) => AfterVendor(p) \in Range(fout.Imports)

-----------------------------------------------------------------------------
(* SpecQualifier: New, then packageQualifier on the packages of the types  *)
(* the method signatures reference.                                        *)

\* the destination directories handed to New ("." is Cwd)
SrcArgs == {".", "/go/src/m/d", "/go/src/m/t"}

\* the -pkg flag: "" infers the name
PkgFlags == {"", "a", "p", "mocks"}

\* the package the loader loads for a source directory: its path is
\* pkgPath(src), its name the package clause of the directory's files
LoadedPkg(src) == Pkg(pkgPath(src), CHOOSE n \in ParseDir(src) : TRUE)

\* the packages whose types a signature can reference: the loaded packages,
\* a sibling directory holding another package p, a child directory holding
\* another package a, a vendored package and a standard library package
Packages ==
    {Pkg("m/a", "a"), Pkg("m/d", "p"), Pkg("m/b", "p"), Pkg("m/a/a", "a"),
     Pkg("m/a/vendor/x/q", "q"), Pkg("context", "context")}

InitQualifier ==
    /\ PipelineOff
    /\ fin \in [src : SrcArgs, packageName : PkgFlags, refs : {<<>>}]
    /\ \E mk \in {New(fin.src, n) : n \in PackageNames(fin.src, fin.packageName)}
                \cup (IF PackageNames(fin.src, fin.packageName) = {} THEN {NoMocker} ELSE {}) :
          fout = [m |-> mk, q |-> "", pkg |-> NoPkg]

Qualify ==
    /\ pc = "off" /\ fout.m.ok /\ Len(fin.refs) < MaxRefs
    /\ \E pkg \in Packages :
          /\ fout' = [pkg |-> pkg] @@ packageQualifier(fout.m, pkg)
          /\ fin' = [fin EXCEPT !.refs = Append(@, pkg)]
    /\ UNCHANGED pipeVars

NextQualifier == Qualify

SpecQualifier == InitQualifier /\ [][NextQualifier]_vars

\* the mock is generated into the package of the source interface
SamePackage == fin.packageName \in {"", LoadedPkg(fin.src).name}

\* C7: generating into the source package (no override, or one equal to its
\* name), a type of that package gets no qualifier and the package's own
\* import path is never recorded.
C7_SelfPackageUnqualified ==
    (fout.m.ok /\ SamePackage) =>
        /\ LoadedPkg(fin.src).path \notin fout.m.imports
        /\ (fout.pkg = LoadedPkg(fin.src) => fout.q = "")

\* C7 witness: a type of a source package named differently from its folder
\* has been qualified
C7_Witness ==
    /\ fout.m.ok /\ SamePackage
    /\ fin.src = "/go/src/m/d"
    /\ fout.pkg = LoadedPkg(fin.src) /\ fout.q = ""
    /\ Len(fin.refs) = 2 /\ fout.m.imports # {}

\* C10: generating into the source package, a type of any other package gets
\* that package's name as qualifier and its import path is recorded.
C10_ForeignQualified ==
    (fout.m.ok /\ SamePackage /\ fout.pkg # NoPkg
        /\ fout.pkg.path # LoadedPkg(fin.src).path) =>
        /\ fout.q = fout.pkg.name
        /\ fout.pkg.path \in fout.m.imports

-----------------------------------------------------------------------------
(* SpecExtract: extractArgs on the parameters and results of a method.     *)

\* the types of the parameters: universe types, a type of the source package
\* with a one-letter name, a slice of a vendored package's type
ParamTypes ==
    {Type("", NoPkg, "int"), Type("[]", NoPkg, "int"),
     Type("", Pkg("m/a", "a"), "T"), Type("[]", Pkg("m/a/vendor/x/q", "q"), "Item")}

ParamNames == {"a", "out1"}

ResultNames == {"r", "in1"}

\* a parameter list of the source: all unnamed, or all named with distinct names
Tuples(nameSet) ==
    LET unnamed == {[i \in 1..Len(ts) |-> Var("", ts[i])] : ts \in SeqsUpTo(ParamTypes, MaxParams)}
        named == {t \in SeqsUpTo({Var(n, ty) : n \in nameSet, ty \in ParamTypes}, MaxParams) :
                    /\ Len(t) > 0
                    /\ \A i, j \in 1..Len(t) : t[i].name = t[j].name => i = j}
    IN  unnamed \cup named

\* the signatures of the source: a variadic one ends in a slice parameter
Signatures ==
    {sg \in [variadic : BOOLEAN, params : Tuples(ParamNames), results : Tuples(ResultNames)] :
        sg.variadic => (Len(sg.params) > 0 /\ sg.params[Len(sg.params)].type.prefix = "[]")}

InitExtract ==
    /\ PipelineOff
    /\ fin \in [name : {"F"}, sig : Signatures]
    /\ fout = [method |-> [Name |-> "", Params |-> <<>>, Returns |-> <<>>],
               m |-> New(".", "a"), panic |-> FALSE, done |-> FALSE]

ExtractMethod ==
    /\ pc = "off" /\ ~fout.done
    /\ fout' = [extractMethod(fout.m, fin) EXCEPT !.done = TRUE]
    /\ UNCHANGED <<pipeVars, fin>>

NextExtract == ExtractMethod

SpecExtract == InitExtract /\ [][NextExtract]_vars

Extracted == fout.done /\ ~fout.panic

\* C5: among the descriptors of a method the variadic flag is true only for
\* the last input of a variadic signature, never for an output.
C5_VariadicOnlyLastInput ==
    Extracted =>
        /\ \A i \in 1..Len(fout.method.Returns) : ~fout.method.Returns[i].Variadic
        /\ \A i \in 1..Len(fout.method.Params) :
              fout.method.Params[i].Variadic =>
                  (fin.sig.variadic /\ i = Len(fout.method.Params))

\* the names extraction synthesized for a list
Synthesized(list, descs) == {descs[i].Name : i \in {j \in 1..Len(list) : list[j].name = ""}}

\* the names the source gives in a list
Explicit(list) == {list[i].name : i \in {j \in 1..Len(list) : list[j].name # ""}}

\* extraction keeps the order and the explicit names of a list and names the
\* k-th unnamed element prefix<k>
ListExtracted(list, descs, prefix) ==
    /\ Len(descs) = Len(list)
    /\ \A k \in 1..Len(list) :
          /\ descs[k].Type = TypeString(New(".", "a"), list[k].type).str
          /\ descs[k].Name = IF list[k].name = "" THEN prefix \o ToString(k) ELSE list[k].name

\* the synthesized names of a method are pairwise distinct
SynthesizedDistinct ==
    LET ins == {k \in 1..Len(fin.sig.params) : fin.sig.params[k].name = ""}
        outs == {k \in 1..Len(fin.sig.results) : fin.sig.results[k].name = ""}
    IN  /\ \A i, j \in ins : fout.method.Params[i].Name = fout.method.Params[j].Name => i = j
        /\ \A i, j \in outs : fout.method.Returns[i].Name = fout.method.Returns[j].Name => i = j
        /\ \A i \in ins, j \in outs : fout.method.Params[i].Name # fout.method.Returns[j].Name

-----------------------------------------------------------------------------
(* Spec: invocations of the tool.  In mode "cli" each invocation is a run  *)
(* of main (New, Mock, ioutil.WriteFile, exit); in mode "api" a library    *)
(* caller makes a Mocker with New and calls Mock on it again and again.    *)

\* the package scope of the loaded package tpkg: the interfaces Store (its
\* methods name a standard library type, a type of tpkg and a type of a
\* vendored package) and Empty, and the struct Person
Lookup(tpkg, n) ==
    IF n = "Store"
    THEN [found |-> TRUE, isInterface |-> TRUE,
          methods |-> <<[name |-> "Get",
                         sig |-> Signature(FALSE,
                                    <<Var("ctx", Type("", Pkg("context", "context"), "Context")),
                                      Var("id", Type("", NoPkg, "string"))>>,
                                    <<Var("", Type("*", tpkg, "Person")),
                                      Var("", Type("", NoPkg, "error"))>>)],
                        [name |-> "Save",
                         sig |-> Signature(TRUE,
                                    <<Var("items", Type("[]", Pkg("m/a/vendor/x/q", "q"), "Item"))>>,
                                    <<Var("", Type("", NoPkg, "error"))>>)]>>]
    ELSE IF n = "Empty"
    THEN [found |-> TRUE, isInterface |-> TRUE, methods |-> <<>>]
    ELSE IF n = "Person"
    THEN [found |-> TRUE, isInterface |-> FALSE, methods |-> <<>>]
    ELSE [found |-> FALSE, isInterface |-> FALSE, methods |-> <<>>]

\* the names a caller asks for: two interfaces, a struct, an undeclared name
Names == {"Store", "Empty", "Person", "Nope"}

NameLists == SeqsUpTo(Names, MaxNames)

\* main's -out flag: stdout, a file the cleanup pattern matches, one it does not
OutFlags == {"", "store_mock.go", "mocks_test.go"}

\* the destination directories and -pkg flags of the invocations
MainSrcArgs == {".", "/go/src/m/t"}

MainPkgFlags == {"", "mocks"}

File(name, contracts) == [name |-> name, contracts |-> contracts]

\* removeOldMocks: the directory after os.Remove was called on every file that
\* matches *_mock.go; the error os.Remove returns is dropped
removeOldMocks(dir, unremovable) ==
    {f \in dir : ~HasSuffix(f.name, "_mock.go") \/ f.name \in unremovable}

\* ioutil.WriteFile(name, data, 0644): the file is created or truncated
WriteFile(dir, name, contracts) ==
    {f \in dir : f.name # name} \cup {File(name, contracts)}

\* the contracts mocked in written documents
Contracts(docs) ==
    UNION {{docs[i].Objects[k].InterfaceName : k \in 1..Len(docs[i].Objects)} : i \in 1..Len(docs)}

\* what Mock's loop body reports for the looked-up object of name n
lookupError_interfaceUnchecked(iface, n) ==
    IF ~iface.found THEN Error("NotFound", n) ELSE NoError

lookupError(iface, n) ==
    IF ~iface.found THEN Error("NotFound", n)
    ELSE IF ~iface.isInterface THEN Error("NotAnInterface", n)
    ELSE NoError

\* Mock's loop over the methods of an interface
RECURSIVE extractMethods(_, _, _)
extractMethodsNext(methods, acc, r) ==
    IF r.panic
    THEN [methods |-> acc, m |-> r.m, panic |-> TRUE]
    ELSE extractMethods(r.m, Tail(methods), Append(acc, r.method))

extractMethods(mk, methods, acc) ==
    IF Len(methods) = 0
    THEN [methods |-> acc, m |-> mk, panic |-> FALSE]
    ELSE extractMethodsNext(methods, acc, extractMethod(mk, Head(methods)))

\* m.tmpl.Execute(&buf, doc): the rendered document goes to Mock's own buffer
\* and not to the writer
tmplExecute_intoWriter(wr, bf, d) == [w |-> Append(wr, d), buf |-> bf]

tmplExecute(wr, bf, d) == [w |-> wr, buf |-> Append(bf, d)]

\* imports.Process: the document formatted, its imports a sorted list without
\* duplicates (here the set of them)
Process(bf) == [i \in 1..Len(bf) |-> [bf[i] EXCEPT !.Imports = Range(@)]]

Init ==
    /\ pc = "idle" /\ mode \in {"cli", "api"}
    /\ m = NoMocker /\ names = <<>> /\ outFile = ""
    /\ idx = 0 /\ doc = EmptyDoc /\ mocksMethods = FALSE /\ buf = <<>>
    /\ formatted = <<>> /\ w = <<>> /\ err = NoError /\ persisted = FALSE
    /\ files \in {{}, {File("store_mock.go", {"Store"})}}
    /\ locked \in SUBSET {f.name : f \in files}
    /\ fin = <<>> /\ fout = [done |-> FALSE]

Fail(e) ==
    /\ err' = e
    /\ pc' = "failed"

\* main up to its call of Mock: flag parsing and moq.New (part_000:15-52)
mainNew(src, pkgFlag, out, args, pkgNames) ==
    IF Len(args) = 0
    THEN Fail(Error("NotEnoughArguments", "")) /\ UNCHANGED <<m, names, outFile>>
    ELSE IF pkgNames = {}
    THEN Fail(Error("NoPackageFound", "")) /\ UNCHANGED <<m, names, outFile>>
    ELSE /\ \E n \in pkgNames : m' = New(src, n)
         /\ names' = args
         /\ outFile' = out
         /\ pc' = "Mock"
         /\ err' = err

mainStart ==
    /\ pc = "idle" /\ mode = "cli"
    /\ \E src \in MainSrcArgs, pkgFlag \in MainPkgFlags, out \in OutFlags, args \in NameLists :
          mainNew(src, pkgFlag, out, args, PackageNames(src, pkgFlag))
    /\ UNCHANGED <<mode, idx, doc, mocksMethods, buf, formatted, w, files, locked,
                   persisted, fin, fout>>

\* a library caller's moq.New (moq.go:79-121)
callerNewWith(src, pkgNames) ==
    /\ pkgNames # {}
    /\ \E n \in pkgNames : m' = New(src, n)

callerNew ==
    /\ pc = "idle" /\ mode = "api" /\ ~m.ok
    /\ \E src \in MainSrcArgs, pkgFlag \in MainPkgFlags :
          callerNewWith(src, PackageNames(src, pkgFlag))
    /\ UNCHANGED <<pc, mode, names, outFile, idx, doc, mocksMethods, buf, formatted, w,
                   err, files, locked, persisted, fin, fout>>

\* a library caller's call of Mock on its Mocker, with a writer of its own
callerMock ==
    /\ pc = "idle" /\ mode = "api" /\ m.ok
    /\ \E args \in NameLists : names' = args
    /\ pc' = "Mock"
    /\ UNCHANGED <<mode, m, outFile, idx, doc, mocksMethods, buf, formatted, w, err,
                   files, locked, persisted, fin, fout>>

\* Mock, lines 140-146: the check of the names and removeOldMocks, whose
\* filepath.Abs or filepath.Glob may fail
MockCleanup ==
    /\ pc = "Mock"
    /\ IF Len(names) = 0
       THEN Fail(Error("MustSpecifyInterface", "")) /\ UNCHANGED files
       ELSE \E globOk \in BOOLEAN :
              IF globOk
              THEN /\ files' = removeOldMocks(files, locked)
                   /\ pc' = "load"
                   /\ err' = err
              ELSE Fail(Error("StaleFileCleanupError", "")) /\ UNCHANGED files
    /\ UNCHANGED <<mode, m, names, outFile, idx, doc, mocksMethods, buf, formatted, w,
                   locked, persisted, fin, fout>>

\* Mock, lines 148-158: pkgInfoFromPath, which may fail, and the empty doc
MockLoad ==
    /\ pc = "load"
    /\ \E loadOk \in BOOLEAN :
          IF loadOk
          THEN /\ doc' = [PackageName |-> m.pkgName, Objects |-> <<>>, Imports |-> moqImports]
               /\ mocksMethods' = FALSE
               /\ idx' = 1
               /\ pc' = "loop"
               /\ err' = err
          ELSE Fail(Error("LoadError", "")) /\ UNCHANGED <<doc, mocksMethods, idx>>
    /\ UNCHANGED <<mode, m, names, outFile, buf, formatted, w, files, locked, persisted,
                   fin, fout>>

\* the loop body of Mock for a name that is an interface: r is what the loop
\* over its methods extracted
MockObject(n, iface, r) ==
    /\ m' = r.m
    /\ IF r.panic
       THEN Fail(Error("panic", n)) /\ UNCHANGED <<doc, mocksMethods, idx>>
       ELSE /\ doc' = [doc EXCEPT !.Objects =
                          Append(@, [InterfaceName |-> n, Methods |-> r.methods])]
            /\ mocksMethods' = (mocksMethods \/ Len(iface.methods) > 0)
            /\ idx' = idx + 1
            /\ UNCHANGED <<pc, err>>

MockName(n, iface, e) ==
    IF e # NoError
    THEN Fail(e) /\ UNCHANGED <<m, doc, mocksMethods, idx>>
    ELSE MockObject(n, iface, extractMethods(m, iface.methods, <<>>))

MockScope(n, iface) == MockName(n, iface, lookupError(iface, n))

\* Mock, lines 161-185: one iteration of the loop over the names
MockLookup ==
    /\ pc = "loop" /\ idx <= Len(names)
    /\ MockScope(names[idx], Lookup(LoadedPkg(m.src), names[idx]))
    /\ UNCHANGED <<mode, names, outFile, buf, formatted, w, files, locked, persisted,
                   fin, fout>>

\* Mock, lines 187-193: the imports of the document
MockImports ==
    /\ pc = "loop" /\ idx > Len(names)
    /\ \E order \in Orders(m.imports) :
          doc' = [doc EXCEPT !.Imports =
                     flushImports(IF mocksMethods THEN Append(@, "sync") ELSE @, order)]
    /\ pc' = "execute"
    /\ UNCHANGED <<mode, m, names, outFile, idx, mocksMethods, buf, formatted, w, err,
                   files, locked, persisted, fin, fout>>

Executed(r) == buf' = r.buf /\ w' = r.w

\* Mock, lines 195-199: the template is executed, which may fail
MockExecute ==
    /\ pc = "execute"
    /\ Executed(tmplExecute(w, buf, doc))
    /\ \E execOk \in BOOLEAN :
          IF execOk
          THEN pc' = "format" /\ err' = err
          ELSE Fail(Error("TemplateError", ""))
    /\ UNCHANGED <<mode, m, names, outFile, idx, doc, mocksMethods, formatted, files,
                   locked, persisted, fin, fout>>

\* Mock, lines 200-203: imports.Process, which may fail
MockFormat ==
    /\ pc = "format"
    /\ \E formatOk \in BOOLEAN :
          IF formatOk
          THEN /\ formatted' = Process(buf)
               /\ pc' = "write"
               /\ err' = err
          ELSE Fail(Error("FormatError", "")) /\ UNCHANGED formatted
    /\ UNCHANGED <<mode, m, names, outFile, idx, doc, mocksMethods, buf, w, files,
                   locked, persisted, fin, fout>>

\* Mock, lines 204-207: the document is written; a writer other than main's
\* buffer may fail
MockWrite ==
    /\ pc = "write"
    /\ \E writeOk \in {TRUE} \cup (IF mode = "cli" /\ outFile # "" THEN {} ELSE {FALSE}) :
          IF writeOk
          THEN /\ w' = w \o formatted
               /\ pc' = "returned"
               /\ err' = err
          ELSE Fail(Error("WriteError", "")) /\ UNCHANGED w
    /\ UNCHANGED <<mode, m, names, outFile, idx, doc, mocksMethods, buf, formatted,
                   files, locked, persisted, fin, fout>>

\* main, lines 57-63: the buffer is written to the -out file
mainWriteFile ==
    /\ pc = "returned" /\ mode = "cli" /\ outFile # ""
    /\ files' = WriteFile(files, outFile, Contracts(w))
    /\ persisted' = TRUE
    /\ pc' = "done"
    /\ UNCHANGED <<mode, m, names, outFile, idx, doc, mocksMethods, buf, formatted, w,
                   err, locked, fin, fout>>

\* the end of the invocation: main exits (its Mocker is gone with it), or Mock
\* returns to the library caller, who keeps the Mocker
Return ==
    /\ \/ pc \in {"failed", "done"}
       \/ pc = "returned" /\ ~(mode = "cli" /\ outFile # "")
    /\ pc' = "idle"
    /\ m' = IF mode = "cli" THEN NoMocker ELSE m
    /\ names' = <<>> /\ outFile' = "" /\ idx' = 0 /\ doc' = EmptyDoc
    /\ mocksMethods' = FALSE /\ buf' = <<>> /\ formatted' = <<>> /\ w' = <<>>
    /\ err' = NoError /\ persisted' = FALSE
    /\ UNCHANGED <<mode, files, locked, fin, fout>>

Next ==
    \/ mainStart
    \/ callerNew
    \/ callerMock
    \/ MockCleanup
    \/ MockLoad
    \/ MockLookup
    \/ MockImports
    \/ MockExecute
    \/ MockFormat
    \/ MockWrite
    \/ mainWriteFile
    \/ Return

Spec == Init /\ [][Next]_vars

-----------------------------------------------------------------------------
(* The claims about the invocations.                                       *)

\* the failures of Mock before its write
FailuresBeforeWrite ==
    {"MustSpecifyInterface", "StaleFileCleanupError", "LoadError", "NotFound",
     "NotAnInterface", "TemplateError", "FormatError"}

\* C1: when Mock reports a failure (zero names, cleanup, load, a name absent
\* or not an interface, template, formatting) nothing has been written to the
\* writer and main has persisted no file.
C1_AllOrNothing ==
    err.kind \in FailuresBeforeWrite => (w = <<>> /\ ~persisted)

\* C1 witness: a run of main with an -out file failed on its second name after
\* the first name's contract had been extracted
C1_Witness ==
    /\ pc = "failed" /\ mode = "cli" /\ outFile # ""
    /\ err.kind \in {"NotFound", "NotAnInterface"}
    /\ idx = 2 /\ Len(doc.Objects) = 1 /\ Len(doc.Objects[1].Methods) = 2
    /\ w = <<>> /\ ~persisted

\* a name Mock rejects, and the error kind it is rejected with
Invalid(n) == ~Lookup(LoadedPkg(m.src), n).found \/ ~Lookup(LoadedPkg(m.src), n).isInterface

KindFor(n) == IF ~Lookup(LoadedPkg(m.src), n).found THEN "NotFound" ELSE "NotAnInterface"

ObjectNames == [i \in 1..Len(doc.Objects) |-> doc.Objects[i].InterfaceName]

\* C2: the names are processed in the caller's order: the error reported is
\* the one of the first invalid name (NotFound for an absent name,
\* NotAnInterface for a non-interface), and once the loop is through the
\* document holds one contract per name, in the order of the names.
C2_SequentialFirstInvalid ==
    /\ (pc = "failed" /\ err.kind \in {"NotFound", "NotAnInterface"}) =>
          /\ idx \in 1..Len(names)
          /\ \A i \in 1..(idx - 1) : ~Invalid(names[i])
          /\ Invalid(names[idx])
          /\ err = Error(KindFor(names[idx]), names[idx])
    /\ pc = "loop" =>
          /\ ObjectNames = SubSeq(names, 1, idx - 1)
          /\ \A i \in 1..(idx - 1) : ~Invalid(names[i])
    /\ pc \in {"execute", "format", "write", "returned", "done"} =>
          /\ ObjectNames = names
          /\ \A i \in 1..Len(names) : ~Invalid(names[i])

\* C2 witness: of a struct and an undeclared name the first was reported
C2_Witness ==
    /\ pc = "failed"
    /\ names = <<"Person", "Nope">>
    /\ err = Error("NotAnInterface", "Person")

\* C3: the directory never holds two generated files for the same contract
\* (stated for the directories all of whose files can be removed).
C3_NoTwoFilesForOneContract ==
    locked = {} =>
        \A f, g \in files : f.name # g.name => f.contracts \cap g.contracts = {}

\* C4: past the cleanup with a generated file left that could not be removed,
\* the invocation has failed with StaleFileCleanupError and produced no output.
C4_CleanupFailureSurfaced ==
    (pc \notin {"idle", "Mock"}
        /\ \E f \in files : HasSuffix(f.name, "_mock.go") /\ f.name \in locked
        /\ err.kind \notin {"NotEnoughArguments", "NoPackageFound", "MustSpecifyInterface"})
    => (err.kind = "StaleFileCleanupError" /\ w = <<>> /\ ~persisted)

\* the import paths the signatures of the named contracts reference: what a
\* Mocker with an empty import set records for them
RECURSIVE ReferencedBy(_, _)
ReferencedBy(mk, ns) ==
    IF Len(ns) = 0 THEN mk.imports
    ELSE ReferencedBy(extractMethods(mk, Lookup(LoadedPkg(mk.src), Head(ns)).methods, <<>>).m,
                      Tail(ns))

\* C9: the foreign imports of the document a call renders are exactly those
\* the signatures of the contracts requested in that call reference.
C9_ImportsOfThisCall ==
    pc \in {"execute", "format", "write", "returned", "done"} =>
        Range(doc.Imports) \ ({"sync"} \cup Range(moqImports))
            = {stripVendorPath(p) : p \in ReferencedBy([m EXCEPT !.imports = {}], names)}

====
